---- MODULE Spec2Model ----
(***************************************************************************)
(* Model of src/pipeline/training_pipeline.py: the module body that        *)
(* imports the two collaborator modules and, when run as the entry point,  *)
(* constructs and runs DataProcessing and then Model_Training.             *)
(*                                                                         *)
(* The collaborators are opaque: every import, constructor call and run    *)
(* call either completes or raises one of the values of Errors, and a run  *)
(* may write artifacts while it executes.  Errors ranges over failures,    *)
(* i.e. exceptions whose uncaught propagation ends the interpreter with    *)
(* status 1.                                                               *)
(***************************************************************************)
EXTENDS Naturals, Sequences, FiniteSets

VARIABLES name, pc, data_processor, trainer, exc, status, effects, log

vars == <<name, pc, data_processor, trainer, exc, status, effects, log>>

(* Bound: artifacts one run operation may write before it returns or raises *)
MaxWrites == 2

(* __name__ of the module: the entry point, or the dotted name of an import *)
Main == "__main__"
ModuleNames == {Main, "pipeline.training_pipeline", "src.pipeline.training_pipeline"}

(* The literal argument of line 5 *)
DataPath == "artifacts/raw/data.csv"

(* Failures a collaborator (or its import) may raise *)
Errors == {"ImportError", "FileNotFoundError", "ValueError"}
NoExc == "none"

DP == "DataProcessing"
MT == "Model_Training"
DPModule == "src.data_processing"
MTModule == "src.model_training"

(* Exit status of the process; NotExited while the interpreter still runs *)
NotExited == 2

Unbound == [cls |-> "unbound", args |-> <<>>]
Object(cls, args) == [cls |-> cls, args |-> args]

(* One observable operation of the module body: what was done, to which    *)
(* module or class, with which arguments, and the failure it raised if any *)
Event(op, target, arg, err) == [op |-> op, target |-> target, arg |-> arg, err |-> err]
FailureOps == {"import_failed", "construct_failed", "run_failed"}

(***************************************************************************)
(* History helpers over the log of observable operations.                  *)
(***************************************************************************)
Occ(op, target) == {i \in DOMAIN log : log[i].op = op /\ log[i].target = target}
Count(op, target) == Cardinality(Occ(op, target))
Happened(op, target) == Occ(op, target) # {}
Before(op1, t1, op2, t2) ==
    \A j \in Occ(op2, t2) : \E i \in Occ(op1, t1) : i < j
Failures == {i \in DOMAIN log : log[i].op \in FailureOps}
Touched(target) == {i \in DOMAIN log : log[i].target = target}

Init ==
    /\ name \in ModuleNames
    /\ pc = "import_dp"
    /\ data_processor = Unbound
    /\ trainer = Unbound
    /\ exc = NoExc
    /\ status = NotExited
    /\ effects = [c \in {DP, MT} |-> 0]
    /\ log = <<>>

(***************************************************************************)
(* A statement that raises: nothing in the module catches, so the          *)
(* exception leaves the module body.                                       *)
(***************************************************************************)
Raise(op, target, arg, e) ==
    /\ pc' = "raising"
    /\ exc' = e
    /\ log' = Append(log, Event(op, target, arg, e))

(* line 1: from src.data_processing import DataProcessing *)
(* Variant: the training module is imported lazily, not at line 2 *)
ImportDPOk_LazyTrainingImport ==
    /\ pc = "import_dp"
    /\ pc' = "guard"
    /\ log' = Append(log, Event("import", DPModule, <<>>, NoExc))
    /\ UNCHANGED <<name, data_processor, trainer, exc, status, effects>>

ImportDPOk ==
    /\ pc = "import_dp"
    /\ pc' = "import_mt"
    /\ log' = Append(log, Event("import", DPModule, <<>>, NoExc))
    /\ UNCHANGED <<name, data_processor, trainer, exc, status, effects>>

ImportDPRaise ==
    /\ pc = "import_dp"
    /\ \E e \in Errors : Raise("import_failed", DPModule, <<>>, e)
    /\ UNCHANGED <<name, data_processor, trainer, status, effects>>

(* line 2: from src.model_training import Model_Training *)
ImportMTOk ==
    /\ pc = "import_mt"
    /\ pc' = "guard"
    /\ log' = Append(log, Event("import", MTModule, <<>>, NoExc))
    /\ UNCHANGED <<name, data_processor, trainer, exc, status, effects>>

ImportMTRaise ==
    /\ pc = "import_mt"
    /\ \E e \in Errors : Raise("import_failed", MTModule, <<>>, e)
    /\ UNCHANGED <<name, data_processor, trainer, status, effects>>

(* line 4: if __name__ == "__main__": *)
(* Variant: the body is not guarded by the __name__ test *)
Guard_Unconditional ==
    /\ pc = "guard"
    /\ pc' = "construct_dp"
    /\ log' = Append(log, Event("guard", name, <<>>, NoExc))
    /\ UNCHANGED <<name, data_processor, trainer, exc, status, effects>>

Guard ==
    /\ pc = "guard"
    /\ pc' = IF name = Main THEN "construct_dp" ELSE "end"
    /\ log' = Append(log, Event("guard", name, <<>>, NoExc))
    /\ UNCHANGED <<name, data_processor, trainer, exc, status, effects>>

(* line 5: data_processor = DataProcessing("artifacts/raw/data.csv") *)
(* Variant: the processor is built but line 6 is missing *)
ConstructDPOk_SkipRun ==
    /\ pc = "construct_dp"
    /\ data_processor' = Object(DP, <<DataPath>>)
    /\ pc' = "construct_mt"
    /\ log' = Append(log, Event("construct", DP, <<DataPath>>, NoExc))
    /\ UNCHANGED <<name, trainer, exc, status, effects>>

(* Variant: the processor is built on another path *)
ConstructDPOk_OtherPath ==
    /\ pc = "construct_dp"
    /\ data_processor' = Object(DP, <<"artifacts/processed/data.csv">>)
    /\ pc' = "call_dp_run"
    /\ log' = Append(log, Event("construct", DP, <<"artifacts/processed/data.csv">>, NoExc))
    /\ UNCHANGED <<name, trainer, exc, status, effects>>

ConstructDPOk ==
    /\ pc = "construct_dp"
    /\ data_processor' = Object(DP, <<DataPath>>)
    /\ pc' = "call_dp_run"
    /\ log' = Append(log, Event("construct", DP, <<DataPath>>, NoExc))
    /\ UNCHANGED <<name, trainer, exc, status, effects>>

ConstructDPRaise ==
    /\ pc = "construct_dp"
    /\ \E e \in Errors : Raise("construct_failed", DP, <<DataPath>>, e)
    /\ UNCHANGED <<name, data_processor, trainer, status, effects>>

(* line 6: data_processor.run() -- the call, the collaborator's work, and  *)
(* the two ways the call can finish                                        *)
(* Variant: run is started without waiting for it to return *)
RunDPCall_NoWait ==
    /\ pc = "call_dp_run"
    /\ data_processor.cls = DP
    /\ pc' = "construct_mt"
    /\ log' = Append(log, Event("call", DP, <<>>, NoExc))
    /\ UNCHANGED <<name, data_processor, trainer, exc, status, effects>>

RunDPCall ==
    /\ pc = "call_dp_run"
    /\ data_processor.cls = DP
    /\ pc' = "in_dp_run"
    /\ log' = Append(log, Event("call", DP, <<>>, NoExc))
    /\ UNCHANGED <<name, data_processor, trainer, exc, status, effects>>

RunDPWrite ==
    /\ pc = "in_dp_run"
    /\ effects[DP] < MaxWrites
    /\ effects' = [effects EXCEPT ![DP] = @ + 1]
    /\ UNCHANGED <<name, pc, data_processor, trainer, exc, status, log>>

RunDPReturn ==
    /\ pc = "in_dp_run"
    /\ pc' = "construct_mt"
    /\ log' = Append(log, Event("return", DP, <<>>, NoExc))
    /\ UNCHANGED <<name, data_processor, trainer, exc, status, effects>>

(* Variant: line 6 wrapped in a handler that discards the failure *)
RunDPRaise_Swallowed ==
    /\ pc = "in_dp_run"
    /\ pc' = "construct_mt"
    /\ \E e \in Errors : log' = Append(log, Event("run_failed", DP, <<>>, e))
    /\ UNCHANGED <<name, data_processor, trainer, exc, status, effects>>

(* Variant: line 6 retried after a failure *)
RunDPRaise_Retry ==
    /\ pc = "in_dp_run"
    /\ pc' = "call_dp_run"
    /\ \E e \in Errors : log' = Append(log, Event("run_failed", DP, <<>>, e))
    /\ UNCHANGED <<name, data_processor, trainer, exc, status, effects>>

RunDPRaise ==
    /\ pc = "in_dp_run"
    /\ \E e \in Errors : Raise("run_failed", DP, <<>>, e)
    /\ UNCHANGED <<name, data_processor, trainer, status, effects>>

(* line 8: trainer = Model_Training() *)
ConstructMTOk ==
    /\ pc = "construct_mt"
    /\ trainer' = Object(MT, <<>>)
    /\ pc' = "call_mt_run"
    /\ log' = Append(log, Event("construct", MT, <<>>, NoExc))
    /\ UNCHANGED <<name, data_processor, exc, status, effects>>

(* Variant: a failed trainer construction rolls the processed data back *)
ConstructMTRaise_Rollback ==
    /\ pc = "construct_mt"
    /\ \E e \in Errors : Raise("construct_failed", MT, <<>>, e)
    /\ effects' = [effects EXCEPT ![DP] = 0]
    /\ UNCHANGED <<name, data_processor, trainer, status>>

ConstructMTRaise ==
    /\ pc = "construct_mt"
    /\ \E e \in Errors : Raise("construct_failed", MT, <<>>, e)
    /\ UNCHANGED <<name, data_processor, trainer, status, effects>>

(* line 9: trainer.run() *)
RunMTCall ==
    /\ pc = "call_mt_run"
    /\ trainer.cls = MT
    /\ pc' = "in_mt_run"
    /\ log' = Append(log, Event("call", MT, <<>>, NoExc))
    /\ UNCHANGED <<name, data_processor, trainer, exc, status, effects>>

RunMTWrite ==
    /\ pc = "in_mt_run"
    /\ effects[MT] < MaxWrites
    /\ effects' = [effects EXCEPT ![MT] = @ + 1]
    /\ UNCHANGED <<name, pc, data_processor, trainer, exc, status, log>>

(* Variant: the two steps sit in a loop *)
RunMTReturn_Loop ==
    /\ pc = "in_mt_run"
    /\ pc' = IF Count("call", DP) < 2 THEN "construct_dp" ELSE "end"
    /\ log' = Append(log, Event("return", MT, <<>>, NoExc))
    /\ UNCHANGED <<name, data_processor, trainer, exc, status, effects>>

RunMTReturn ==
    /\ pc = "in_mt_run"
    /\ pc' = "end"
    /\ log' = Append(log, Event("return", MT, <<>>, NoExc))
    /\ UNCHANGED <<name, data_processor, trainer, exc, status, effects>>

(* Variant: line 9 wrapped in a handler that discards the failure *)
RunMTRaise_Swallowed ==
    /\ pc = "in_mt_run"
    /\ pc' = "end"
    /\ \E e \in Errors : log' = Append(log, Event("run_failed", MT, <<>>, e))
    /\ UNCHANGED <<name, data_processor, trainer, exc, status, effects>>

RunMTRaise ==
    /\ pc = "in_mt_run"
    /\ \E e \in Errors : Raise("run_failed", MT, <<>>, e)
    /\ UNCHANGED <<name, data_processor, trainer, status, effects>>

(***************************************************************************)
(* Leaving the module body.  As the entry point the interpreter exits:     *)
(* status 0 at the end of the file, status 1 with the uncaught exception.  *)
(* As an imported module control goes back to the importer, with the       *)
(* exception still propagating if there is one.                            *)
(***************************************************************************)
ExitSuccess ==
    /\ pc = "end"
    /\ name = Main
    /\ pc' = "exited"
    /\ status' = 0
    /\ UNCHANGED <<name, data_processor, trainer, exc, effects, log>>

ExitFailure ==
    /\ pc = "raising"
    /\ name = Main
    /\ pc' = "exited"
    /\ status' = 1
    /\ UNCHANGED <<name, data_processor, trainer, exc, effects, log>>

ReturnToImporter ==
    /\ pc \in {"end", "raising"}
    /\ name # Main
    /\ pc' = "returned"
    /\ UNCHANGED <<name, data_processor, trainer, exc, status, effects, log>>

Next ==
    \/ ImportDPOk
    \/ ImportDPRaise
    \/ ImportMTOk
    \/ ImportMTRaise
    \/ Guard
    \/ ConstructDPOk
    \/ ConstructDPRaise
    \/ RunDPCall
    \/ RunDPWrite
    \/ RunDPReturn
    \/ RunDPRaise
    \/ ConstructMTOk
    \/ ConstructMTRaise
    \/ RunMTCall
    \/ RunMTWrite
    \/ RunMTReturn
    \/ RunMTRaise
    \/ ExitSuccess
    \/ ExitFailure
    \/ ReturnToImporter

Spec == Init /\ [][Next]_vars

(* The interpreter is a single thread that keeps executing: once the       *)
(* module body is left, the exit step is taken.  Nothing is assumed about  *)
(* the collaborators' calls finishing.                                     *)
LiveSpec == Spec /\ WF_vars(ExitSuccess) /\ WF_vars(ExitFailure) /\ WF_vars(ReturnToImporter)

TypeOK ==
    /\ name \in ModuleNames
    /\ exc \in Errors \cup {NoExc}
    /\ status \in {0, 1, NotExited}
    /\ effects \in [{DP, MT} -> 0..MaxWrites]

(***************************************************************************)
(* Properties                                                              *)
(***************************************************************************)
Exited == pc = "exited"
DPRunReturned == Happened("return", DP)
MTRunReturned == Happened("return", MT)
CollaboratorFailures == {i \in Failures : log[i].target \in {DP, MT}}

(* C1 as stated: in every execution as the entry point DataProcessing.run  *)
(* is invoked exactly once, before Model_Training is constructed.          *)
C1_AsStated ==
    Exited => /\ Count("call", DP) = 1
              /\ \A j \in Touched(MT) : \E i \in Occ("call", DP) : i < j

(* C1 amended: DataProcessing.run is invoked at most once, exactly once in *)
(* every execution as the entry point in which DataProcessing was          *)
(* constructed, and its call and return precede any construction of        *)
(* Model_Training.                                                         *)
C1_RunDPOnceBeforeTrainer ==
    /\ Count("call", DP) <= 1
    /\ (Exited /\ Happened("construct", DP)) => Count("call", DP) = 1
    /\ \A j \in Touched(MT) :
          /\ \E i \in Occ("call", DP) : i < j
          /\ \E i \in Occ("return", DP) : i < j

C1_Witness ==
    /\ Exited
    /\ Happened("construct", MT)
    /\ Count("call", DP) = 1

(* C2 as stated: Model_Training.run is invoked exactly once in every       *)
(* execution, and only after DataProcessing.run returned normally.         *)
C2_AsStated ==
    /\ Exited => Count("call", MT) = 1
    /\ Happened("call", MT) => Before("return", DP, "call", MT)

(* C2 amended: Model_Training.run is invoked at most once, exactly once in *)
(* every execution as the entry point in which Model_Training was          *)
(* constructed, and it has never started while DataProcessing.run has not  *)
(* returned normally.                                                      *)
C2_RunMTOnceAfterDPReturned ==
    /\ Count("call", MT) <= 1
    /\ (Exited /\ Happened("construct", MT)) => Count("call", MT) = 1
    /\ Happened("call", MT) =>
          /\ Before("return", DP, "call", MT)
          /\ ~Happened("run_failed", DP)
    /\ pc = "in_dp_run" => ~Happened("call", MT)

C2_Witness ==
    /\ pc = "in_mt_run"
    /\ DPRunReturned
    /\ Count("call", MT) = 1

(* C3: if DataProcessing.run raises, Model_Training is never constructed   *)
(* nor run, and the script terminates failed with that same error.         *)
C3_Safety ==
    \A i \in Occ("run_failed", DP) :
        /\ Touched(MT) = {}
        /\ trainer = Unbound
        /\ pc \in {"raising", "exited"}
        /\ exc = log[i].err
        /\ Exited => status = 1

C3_DPRunFailureStops ==
    /\ []C3_Safety
    /\ Happened("run_failed", DP) ~> (Exited /\ status = 1)

C3_Witness ==
    /\ Exited
    /\ Happened("run_failed", DP)
    /\ exc = "FileNotFoundError"

(* C4: a failure raised by either collaborator propagates uncaught and     *)
(* unmodified; the script ends failed with that error and never ends in    *)
(* the success state after a collaborator raised.                          *)
C4_Safety ==
    \A i \in CollaboratorFailures :
        /\ pc \in {"raising", "exited"}
        /\ exc = log[i].err
        /\ status # 0
        /\ Exited => status = 1

C4_FailuresPropagate ==
    /\ []C4_Safety
    /\ (CollaboratorFailures # {}) ~> (Exited /\ status = 1)

C4_Witness ==
    /\ Exited
    /\ DPRunReturned
    /\ Happened("run_failed", MT)
    /\ exc = "ValueError"
    /\ status = 1

(* C5: once both run operations have returned the script reaches the       *)
(* successful exit, and after Model_Training.run returns nothing more is   *)
(* constructed, called or written.                                         *)
C5_NoFurtherAction ==
    MTRunReturned =>
        /\ log' = log
        /\ effects' = effects
        /\ data_processor' = data_processor
        /\ trainer' = trainer
        /\ exc' = exc

C5_SuccessTerminates ==
    /\ (DPRunReturned /\ MTRunReturned) ~> (Exited /\ status = 0)
    /\ [][C5_NoFurtherAction]_vars

C5_Witness ==
    /\ Exited
    /\ status = 0
    /\ DPRunReturned
    /\ MTRunReturned
    /\ log[Len(log)] = Event("return", MT, <<>>, NoExc)

(* C6: when the module is only imported, no collaborator is constructed    *)
(* and no run operation is invoked.                                        *)
C6_ImportedDoesNothing ==
    name # Main =>
        /\ Touched(DP) = {}
        /\ Touched(MT) = {}
        /\ data_processor = Unbound
        /\ trainer = Unbound
        /\ pc \in {"import_dp", "import_mt", "guard", "end", "raising", "returned"}

C6_Witness ==
    /\ name # Main
    /\ pc = "returned"
    /\ Happened("guard", name)
    /\ exc = NoExc

(* C7: DataProcessing is only ever constructed with the single argument    *)
(* "artifacts/raw/data.csv", and Model_Training with no arguments.         *)
C7_ConstructorArguments ==
    /\ \A i \in Touched(DP) :
          log[i].op \in {"construct", "construct_failed"}
              => log[i].arg = <<"artifacts/raw/data.csv">>
    /\ \A i \in Touched(MT) : log[i].arg = <<>>
    /\ data_processor # Unbound => data_processor = [cls |-> DP, args |-> <<"artifacts/raw/data.csv">>]
    /\ trainer # Unbound => trainer = [cls |-> MT, args |-> <<>>]

C7_Witness ==
    /\ data_processor.cls = DP
    /\ trainer.cls = MT
    /\ Happened("construct", DP)
    /\ Happened("construct", MT)

(* C8: no retry or recovery: each collaborator is constructed at most once *)
(* and each run is invoked at most once, and nothing is executed after a   *)
(* failure.                                                                *)
C8_NoRetry ==
    /\ \A c \in {DP, MT} :
          /\ Count("construct", c) + Count("construct_failed", c) <= 1
          /\ Count("call", c) <= 1
          /\ Count("return", c) + Count("run_failed", c) <= Count("call", c)
    /\ \A i \in Failures : i = Len(log)

C8_Witness ==
    /\ Exited
    /\ status = 1
    /\ Happened("run_failed", DP)
    /\ Count("call", DP) = 1

(* C9: a failing constructor stops the sequence there: after a failed      *)
(* DataProcessing constructor no run is invoked; after a failed            *)
(* Model_Training constructor its run is not invoked, DataProcessing.run   *)
(* has completed, and what DataProcessing.run wrote is never undone.       *)
C9_Safety ==
    /\ Happened("construct_failed", DP) =>
          /\ Count("call", DP) = 0
          /\ Count("call", MT) = 0
          /\ data_processor = Unbound
    /\ Happened("construct_failed", MT) =>
          /\ Count("call", MT) = 0
          /\ trainer = Unbound
          /\ Count("call", DP) = 1
          /\ DPRunReturned
    /\ \A i \in Occ("construct_failed", DP) \cup Occ("construct_failed", MT) :
          /\ pc \in {"raising", "exited"}
          /\ exc = log[i].err

C9_NoUndo == effects'[DP] >= effects[DP]

C9_ConstructorFailureStops ==
    /\ []C9_Safety
    /\ [][C9_NoUndo]_vars

C9_Witness ==
    /\ Exited
    /\ Happened("construct_failed", MT)
    /\ DPRunReturned
    /\ effects[DP] = MaxWrites

(* C10: both collaborator modules are imported before the guard is         *)
(* evaluated, whatever __name__ is; the training module is imported before *)
(* data processing starts, and a failed import prevents DataProcessing     *)
(* from being constructed or run.                                          *)
C10_ImportsFirst ==
    /\ \A j \in DOMAIN log :
          log[j].op = "guard" =>
              /\ \E i \in Occ("import", DPModule) : i < j
              /\ \E i \in Occ("import", MTModule) : i < j
    /\ \A j \in Touched(DP) : \E i \in Occ("import", MTModule) : i < j
    /\ (Happened("import_failed", DPModule) \/ Happened("import_failed", MTModule)) =>
          /\ Touched(DP) = {}
          /\ Touched(MT) = {}
          /\ ~\E j \in DOMAIN log : log[j].op = "guard"
          /\ data_processor = Unbound

C10_Witness ==
    /\ name # Main
    /\ pc = "returned"
    /\ Happened("import", DPModule)
    /\ Happened("import_failed", MTModule)

====
